---- MODULE Spec2Model ----
(***************************************************************************)
(* A model of filex.py: the background index refresher (worker /           *)
(* Extension.update_index / Extension.scan), the query engine              *)
(* (Extension.handle_query / find_results / find_results_dir) and          *)
(* initialize / finalize.                                                  *)
(*                                                                         *)
(* Python strings are sequences of one-character strings, so that          *)
(* str.lower, str.strip, str.find, os.path.split and the (pos, title)      *)
(* sort key are computed, not assumed.                                     *)
(*                                                                         *)
(* The module is the one Albert loads on a desktop, where Gio is present:  *)
(* IndexItem asks Gio for the metadata and raises when Gio cannot give it. *)
(* Titles are the display names, which for the paths and the locations     *)
(* here are what the fallback branch of IndexItem derives.                 *)
(***************************************************************************)
EXTENDS Integers, Sequences, FiniteSets, TLC

(***************************************************************************)
(* Bounds of the model.                                                    *)
(***************************************************************************)
\* longest query string the host submits
MaxQueryLen == 2
\* largest conf["min_length"] tried (the default is 1, filex.py:174)
MaxMinLength == 2
\* most starts of the host, each loading filex.json once
MaxLoads == 2
\* most assignments of Extension.index the history of the index tells apart
MaxGen == 2

(***************************************************************************)
(* Characters and strings.                                                 *)
(***************************************************************************)
LowerCase == << "a","b","c","d","e","f","g","h","i","j","k","l","m",
                "n","o","p","q","r","s","t","u","v","w","x","y","z" >>
UpperCase == << "A","B","C","D","E","F","G","H","I","J","K","L","M",
                "N","O","P","Q","R","S","T","U","V","W","X","Y","Z" >>

IsUpper(c) == \E i \in DOMAIN UpperCase : UpperCase[i] = c
IsLower(c) == \E i \in DOMAIN LowerCase : LowerCase[i] = c
AlphaIndex(c, letters) == CHOOSE i \in DOMAIN letters : letters[i] = c

\* str.lower() and str.upper() on one character
LowerChar(c) == IF IsUpper(c) THEN LowerCase[AlphaIndex(c, UpperCase)] ELSE c
UpperChar(c) == IF IsLower(c) THEN UpperCase[AlphaIndex(c, LowerCase)] ELSE c

\* the code point of a character, which is what Python compares strings by
Ord(c) ==
    IF IsUpper(c) THEN 64 + AlphaIndex(c, UpperCase)
    ELSE IF IsLower(c) THEN 96 + AlphaIndex(c, LowerCase)
    ELSE IF c = " " THEN 32
    ELSE IF c = "*" THEN 42
    ELSE IF c = "/" THEN 47
    ELSE IF c = ":" THEN 58
    ELSE 0

\* str.lower()
Lower(s) == [i \in 1..Len(s) |-> LowerChar(s[i])]

\* str.capitalize(): first character upper-cased, the rest lower-cased
Capitalize(s) ==
    [i \in 1..Len(s) |-> IF i = 1 THEN UpperChar(s[i]) ELSE LowerChar(s[i])]

\* s < t in Python: lexicographic by code point, a proper prefix is smaller
StrLess(s, t) ==
    \E k \in 0..Len(s) :
        /\ k <= Len(t)
        /\ \A i \in 1..k : s[i] = t[i]
        /\ \/ k = Len(s) /\ k < Len(t)
           \/ k < Len(s) /\ k < Len(t) /\ Ord(s[k+1]) < Ord(t[k+1])

\* s.rstrip(chars) and s.lstrip(chars)
RECURSIVE RStrip(_, _)
RStrip(s, chars) ==
    IF s # << >> /\ s[Len(s)] \in chars
    THEN RStrip(SubSeq(s, 1, Len(s) - 1), chars)
    ELSE s

RECURSIVE LStrip(_, _)
LStrip(s, chars) ==
    IF s # << >> /\ s[1] \in chars THEN LStrip(Tail(s), chars) ELSE s

Whitespace == {" "}

\* str.strip()
Strip(s) == LStrip(RStrip(s, Whitespace), Whitespace)

\* s.find(q): zero-based offset of the first occurrence of q in s, or -1
Occurs(s, q, k) == k + Len(q) <= Len(s) /\ SubSeq(s, k + 1, k + Len(q)) = q
Find(s, q) ==
    IF \E k \in 0..Len(s) : Occurs(s, q, k)
    THEN CHOOSE k \in 0..Len(s) :
            Occurs(s, q, k) /\ \A j \in 0..(k - 1) : ~Occurs(s, q, j)
    ELSE -1

\* s.rfind("/") + 1: the length of the prefix up to the last separator
RECURSIVE AfterLastSep(_)
AfterLastSep(s) ==
    IF s = << >> \/ s[Len(s)] = "/" THEN Len(s)
    ELSE AfterLastSep(SubSeq(s, 1, Len(s) - 1))

\* posixpath.split(p) as << head, tail >>
Split(p) ==
    LET i == AfterLastSep(p)
        head == SubSeq(p, 1, i)
        tail == SubSeq(p, i + 1, Len(p))
    IN  IF head # << >> /\ RStrip(head, {"/"}) # << >>
        THEN << RStrip(head, {"/"}), tail >>
        ELSE << head, tail >>

\* posixpath.basename(p)
Basename(p) == SubSeq(p, AfterLastSep(p) + 1, Len(p))

\* posixpath.join(a, b) for a relative b
Join(a, b) ==
    IF a = << >> \/ a[Len(a)] = "/" THEN a \o b ELSE a \o << "/" >> \o b

(***************************************************************************)
(* The file system the process sees.  A node is the sequence of its path   *)
(* components; the directories are fixed and one file comes and goes.      *)
(***************************************************************************)
NameA  == << "a" >>
NameAb == << "A", "b" >>
NameBa == << "B", "a" >>

Root == << >>
Dirs == { Root, << NameA >> }
FixedFiles == { << NameA, NameAb >> }
OptionalFiles == { << NameBa >> }

\* the order in which a directory listing yields the nodes
FsOrder == << << NameA >>, << NameBa >>, << NameA, NameAb >> >>

\* the working directory of the host process
Cwd == Root

\* the components of a path string: split at "/", empty components dropped
RECURSIVE Components(_)
Components(p) ==
    IF p = << >> THEN << >>
    ELSE IF p[1] = "/" THEN Components(Tail(p))
    ELSE LET rest == Tail(p)
             more == Components(rest)
         IN  IF rest # << >> /\ rest[1] # "/"
             THEN << << p[1] >> \o more[1] >> \o Tail(more)
             ELSE << << p[1] >> >> \o more

\* the node a path string names: absolute from the root, else from Cwd
Resolve(p) == (IF p # << >> /\ p[1] = "/" THEN Root ELSE Cwd) \o Components(p)

\* os.path.isdir(p); the empty string names nothing
IsDir(p) == p # << >> /\ Resolve(p) \in Dirs

\* os.path.exists(p); a file followed by a separator does not exist
Exists(p, fs) ==
    /\ p # << >>
    /\ \/ Resolve(p) \in Dirs
       \/ Resolve(p) \in fs /\ p[Len(p)] # "/"

Parent(node) == SubSeq(node, 1, Len(node) - 1)

IsChild(node, dir, fs) ==
    /\ node # Root
    /\ Parent(node) = dir
    /\ node \in Dirs \cup fs

\* the names in directory node dir, in listing order
ListDir(dir, fs) ==
    LET kids == SelectSeq(FsOrder, LAMBDA n : IsChild(n, dir, fs))
    IN  [i \in 1..Len(kids) |-> kids[i][Len(kids[i])]]

\* os.scandir(head): entries with .name and .path = join(head, name)
ScanDir(head, fs) ==
    LET names == ListDir(Resolve(head), fs)
    IN  [i \in 1..Len(names) |-> [name |-> names[i], path |-> Join(head, names[i])]]

\* glob.iglob(pattern) for a literal pattern or a directory followed by "*"
Glob(pattern, fs) ==
    LET dirname == Split(pattern)[1]
        base == Split(pattern)[2]
    IN  IF base = << "*" >>
        THEN IF IsDir(dirname)
             THEN LET names == ListDir(Resolve(dirname), fs)
                  IN  [i \in 1..Len(names) |-> Join(dirname, names[i])]
             ELSE << >>
        ELSE IF Exists(pattern, fs) THEN << pattern >> ELSE << >>

(***************************************************************************)
(* IndexItem                                                               *)
(***************************************************************************)
FileScheme == << "f", "i", "l", "e", ":", "/", "/" >>
ComputerUri == << "c", "o", "m", "p", "u", "t", "e", "r", ":", "/", "/", "/" >>
RecentUri == << "r", "e", "c", "e", "n", "t", ":", "/", "/", "/" >>
TrashUri == << "t", "r", "a", "s", "h", ":", "/", "/", "/" >>

EndsWith(s, suffix) ==
    Len(s) >= Len(suffix) /\ SubSeq(s, Len(s) - Len(suffix) + 1, Len(s)) = suffix

StartsWith(s, prefix) ==
    Len(s) >= Len(prefix) /\ SubSeq(s, 1, Len(prefix)) = prefix

\* IndexItem(path_or_uri) when construction succeeds: uri and title
IndexItem(path_or_uri, fs) ==
    LET u == IF Exists(path_or_uri, fs) THEN FileScheme \o path_or_uri
             ELSE path_or_uri
    IN  IF EndsWith(u, << ":", "/", "/", "/" >>)
        THEN [uri |-> u, title |-> Capitalize(RStrip(u, {":", "/"}))]
        ELSE [uri |-> u, title |-> Basename(RStrip(path_or_uri, {"/"}))]

\* a faulty order of the appends: trash first
TrashFirstUris == << TrashUri, ComputerUri, RecentUri >>
\* the virtual locations update_index appends, in order
VirtualUris == << ComputerUri, RecentUri, TrashUri >>

(***************************************************************************)
(* Configuration (Extension.conf) and the queries the host submits.        *)
(***************************************************************************)
PatRoot == << "/", "*" >>
PatSub == << "/", "a", "/", "*" >>

\* the values of conf["paths"] tried
PathLists == { << PatRoot, PatSub >>, << PatSub, PatSub >> }

\* os.path.expanduser: a leading "~" that ends there or is followed by "/"
\* becomes the home directory
Home == << "/", "a" >>
ExpandUser(p) ==
    IF p # << >> /\ Head(p) = "~" /\ (Len(p) = 1 \/ p[2] = "/")
    THEN Home \o Tail(p)
    ELSE p

\* the keys read_conf knows and what setdefault gives each
ConfKeys == { "min_length", "paths", "scan_interval" }
DefaultMinLength == 1
DefaultScanInterval == 900
DefaultValue(k) ==
    CASE k = "min_length" -> DefaultMinLength
      [] k = "paths" -> << ExpandUser(<< "~", "/", "*" >>) >>
      [] k = "scan_interval" -> DefaultScanInterval

\* the values of conf["scan_interval"] tried
ScanIntervals == { DefaultScanInterval, DefaultScanInterval + 1 }

\* the configurations a running extension is tried with
Configs ==
    [min_length : 0..MaxMinLength, paths : PathLists,
     scan_interval : {DefaultScanInterval}]

(***************************************************************************)
(* filex.json.  A JSON object is the sequence of its members << key,       *)
(* value >> in the order of the text; a dict is a function of its keys.    *)
(***************************************************************************)
\* json.load of an object: the dict of its members, a later member winning
Loads(members) ==
    [k \in { members[i][1] : i \in DOMAIN members } |->
        LET last == CHOOSE i \in DOMAIN members :
                       /\ members[i][1] = k
                       /\ \A j \in DOMAIN members : members[j][1] = k => j <= i
        IN  members[last][2]]

\* the keys of ConfKeys as sort_keys=True orders them
KeyOrder == << "min_length", "paths", "scan_interval" >>

\* json.dumps(data, sort_keys=True): one member for each key, in key order
Dumps(data) ==
    LET keys == SelectSeq(KeyOrder, LAMBDA k : k \in DOMAIN data)
    IN  [i \in 1..Len(keys) |-> << keys[i], data[keys[i]] >>]

\* dict() and "{}"
EmptyDict == [k \in {} |-> 0]

\* the values a member of the file may have
MemberValues(k) ==
    CASE k = "min_length" -> 0..MaxMinLength
      [] k = "paths" -> PathLists
      [] k = "scan_interval" -> ScanIntervals

\* the members an object may have
Members == UNION { { << k, v >> : v \in MemberValues(k) } : k \in ConfKeys }

\* the texts of an object with some of the keys, each once, in any order
ObjectTexts ==
    UNION { { m \in [1..n -> Members] :
                \A i, j \in 1..n : m[i][1] = m[j][1] => i = j }
            : n \in 0..Cardinality(ConfKeys) }

\* filex.json: absent, an object, the text "null", or text json.load rejects
ConfFiles ==
    { [kind |-> "absent", members |-> << >>],
      [kind |-> "null", members |-> << >>],
      [kind |-> "bad", members |-> << >>] }
    \cup { [kind |-> "object", members |-> m] : m \in ObjectTexts }

\* read_json(fname, {}) or {}: what read_conf starts from when nothing raises
ReadJsonOrEmpty(file) ==
    IF file.kind = "object" THEN Loads(file.members) ELSE EmptyDict

\* a faulty merge that assigns the defaults over what the file says
AssignDefaults(d) == [k \in DOMAIN d \cup ConfKeys |-> DefaultValue(k)]

\* the three conf.setdefault calls
SetDefaults(d) ==
    [k \in DOMAIN d \cup ConfKeys |-> IF k \in DOMAIN d THEN d[k] ELSE DefaultValue(k)]

\* a faulty test that writes the file on every load
AlwaysWrites(merged, read) == TRUE

\* "if conf != orig"
NeedsWrite(merged, read) == merged # read

QueryChars == { "/", " ", "a", "B" }

RECURSIVE StringsUpTo(_)
StringsUpTo(n) ==
    IF n = 0 THEN { << >> }
    ELSE LET shorter == StringsUpTo(n - 1)
         IN  shorter \cup { Append(s, c) : s \in shorter, c \in QueryChars }

Queries == StringsUpTo(MaxQueryLen)

(***************************************************************************)
(* State.                                                                  *)
(***************************************************************************)
VARIABLES
    conf,       \* Extension.conf
    files,      \* the files that exist now
    index,      \* Extension.index
    published,  \* update_index has assigned Extension.index at least once
    wpc,        \* the worker thread: unstarted, scan (in update_index), sleep, dead
    wpat,       \* scan: number of patterns of conf["paths"] expanded so far
    wk,         \* update_index: number of virtual entries appended
    building,   \* update_index: the local list, index
    werr,       \* where the exception that killed the worker was raised
    qpc,        \* handle_query: idle, iter, done, raised
    qstr,       \* query.string
    qmode,      \* none (stopped at the length gate), name or path
    qvalid,     \* query.isValid
    cands,      \* what the loop iterates: the list read from Extension.index,
                \* or the entries of os.scandir(head)
    qi,         \* candidates processed so far
    found,      \* the (pos, title, result) triples yielded so far
    results,    \* what handle_query returned
    qcancelAt,  \* candidates processed when isValid turned false, else -1
    qfiles,     \* the files that existed when os.scandir listed the directory
    qread,      \* what Extension.index was when find_results read it
    qgen,       \* the generation of that list, -1 when none was read
    fpc,        \* finalize: none, joining, returned
    cfile,      \* filex.json
    lpc,        \* Extension(): start (not yet constructed), loaded, failed
    loads,      \* the calls of read_conf that have returned
    orig,       \* read_conf: orig, the dict the last call read
    wrote,      \* the last call of read_conf called write_json
    edited,     \* filex.json was changed from outside since the last call
    reloaded,   \* the last call read the file as the call before it left it
    latest,     \* the list update_index assigned last
    gencap,     \* how many assignments of Extension.index the history tells apart
    igen,       \* generation of Extension.index: the assignments so far, up to gencap
    seen        \* largest generation read by the queries that have ended

wvars == << wpc, wpat, wk, building, werr >>
qvars == << qpc, qstr, qmode, qvalid, cands, qi, found, results, qcancelAt, qfiles,
           qread, qgen >>
lvars == << cfile, lpc, loads, orig, wrote, edited, reloaded >>
hvars == << latest, gencap, igen, seen >>
vars == << conf, files, index, published, wvars, qvars, fpc, lvars, hvars >>

Init ==
    /\ conf \in Configs
    /\ files \in { FixedFiles \cup o : o \in SUBSET OptionalFiles }
    /\ index = << >>
    /\ published = FALSE
    /\ wpc = "unstarted"
    /\ wpat = 0
    /\ wk = 0
    /\ building = << >>
    /\ werr = "none"
    /\ qpc = "idle"
    /\ qstr = << >>
    /\ qmode = "none"
    /\ qvalid = TRUE
    /\ cands = << >>
    /\ qi = 0
    /\ found = << >>
    /\ results = << >>
    /\ qcancelAt = -1
    /\ qfiles = {}
    /\ qread = << >>
    /\ qgen = -1
    /\ fpc = "none"
    /\ latest = << >>
    /\ gencap = 0
    /\ igen = 0
    /\ seen = 0
    /\ cfile = [kind |-> "object", members |-> Dumps(conf)]
    /\ lpc = "loaded"
    /\ loads = 1
    /\ orig = conf
    /\ wrote = FALSE
    /\ edited = FALSE
    /\ reloaded = FALSE

(***************************************************************************)
(* The environment: a file appears or disappears.                          *)
(***************************************************************************)
FsChange ==
    /\ \E f \in OptionalFiles :
          files' = IF f \in files THEN files \ {f} ELSE files \cup {f}
    /\ UNCHANGED << conf, index, published, wvars, qvars, fpc, lvars, hvars >>

(***************************************************************************)
(* The worker thread: worker, Extension.update_index, Extension.scan.      *)
(***************************************************************************)
\* initialize(): thread.start(); the worker enters update_index
Initialize ==
    /\ wpc = "unstarted"
    /\ wpc' = "scan"
    /\ wpat' = 0
    /\ wk' = 0
    /\ building' = << >>
    /\ UNCHANGED << conf, files, index, published, werr, qvars, fpc, lvars, hvars >>

\* IndexItem(path) for each path in turn, as scan() yields them
ResolveAll(paths, fs) == [i \in 1..Len(paths) |-> IndexItem(paths[i], fs)]

\* a faulty update_index that fills self.index itself instead of a local list
ScanPatternInPlace ==
    /\ wpc = "scan"
    /\ wpat < Len(conf.paths)
    /\ LET matches == Glob(ExpandUser(conf.paths[wpat + 1]), files)
       IN  \E ok \in BOOLEAN :
              IF ok \/ matches = << >>
              THEN /\ building' = building \o ResolveAll(matches, files)
                   /\ index' = building'
                   /\ wpat' = wpat + 1
                   /\ UNCHANGED << wpc, werr >>
              ELSE /\ wpc' = "dead"
                   /\ werr' = "scan"
                   /\ building' = << >>
                   /\ wpat' = 0
                   /\ UNCHANGED index
    /\ UNCHANGED << conf, files, published, wk, qvars, fpc, lvars, hvars >>

\* a faulty scan that leaves out a path an earlier pattern has matched
ScanPatternDedup ==
    /\ wpc = "scan"
    /\ wpat < Len(conf.paths)
    /\ LET matches == Glob(ExpandUser(conf.paths[wpat + 1]), files)
           fresh == SelectSeq(ResolveAll(matches, files),
                              LAMBDA item : \A i \in 1..Len(building) : building[i] # item)
       IN  \E ok \in BOOLEAN :
              IF ok \/ matches = << >>
              THEN /\ building' = building \o fresh
                   /\ wpat' = wpat + 1
                   /\ UNCHANGED << wpc, werr >>
              ELSE /\ wpc' = "dead"
                   /\ werr' = "scan"
                   /\ building' = << >>
                   /\ wpat' = 0
    /\ UNCHANGED << conf, files, index, published, wk, qvars, fpc, lvars, hvars >>

\* scan(): one pattern of conf["paths"]: glob.iglob expands it and every match
\* becomes an IndexItem, which list() collects.  Gio's query_info raises for
\* a path it cannot resolve (a broken link, a file gone since the listing);
\* the exception leaves the generator, list(), update_index and worker, none
\* of which catches it, and the thread ends.
ScanPattern ==
    /\ wpc = "scan"
    /\ wpat < Len(conf.paths)
    /\ LET matches == Glob(ExpandUser(conf.paths[wpat + 1]), files)
       IN  \E ok \in BOOLEAN :
              IF ok \/ matches = << >>
              THEN /\ building' = building \o ResolveAll(matches, files)
                   /\ wpat' = wpat + 1
                   /\ UNCHANGED << wpc, werr >>
              ELSE /\ wpc' = "dead"
                   /\ werr' = "scan"
                   /\ building' = << >>
                   /\ wpat' = 0
    /\ UNCHANGED << conf, files, index, published, wk, qvars, fpc, lvars, hvars >>

\* update_index: list(self.scan()) has returned; index.append(IndexItem(uri))
\* for the three virtual locations.  The list is local and the URIs are no
\* files, so nothing another thread does between the appends is seen by them
\* or sees them: they are one step, which any of the three may end by raising.
AppendVirtual ==
    /\ wpc = "scan"
    /\ wpat = Len(conf.paths)
    /\ wk < Len(VirtualUris)
    /\ \E ok \in BOOLEAN :
          IF ok
          THEN /\ building' = building \o ResolveAll(VirtualUris, files)
               /\ wk' = Len(VirtualUris)
               /\ UNCHANGED << wpc, werr, wpat >>
          ELSE /\ wpc' = "dead"
               /\ werr' = "virtual"
               /\ building' = << >>
               /\ wk' = 0
               /\ wpat' = 0
    /\ UNCHANGED << conf, files, index, published, qvars, fpc, lvars, hvars >>

\* a faulty update_index that refills the list self.index names
\* (self.index[:] = index), the list a running name-mode query iterates
PublishInPlace ==
    /\ wpc = "scan"
    /\ wpat = Len(conf.paths)
    /\ wk = Len(VirtualUris)
    /\ index' = building
    /\ cands' = IF qpc = "iter" /\ qmode = "name" THEN building ELSE cands
    /\ published' = TRUE
    /\ wpc' = "sleep"
    /\ building' = << >>
    /\ latest' = building
    /\ igen' = IF igen < gencap THEN igen + 1 ELSE igen
    /\ UNCHANGED << conf, files, wpat, wk, werr, fpc, lvars, gencap, seen,
                    qpc, qstr, qmode, qvalid, qi, found, results, qcancelAt, qfiles,
                    qread, qgen >>

\* update_index: self.index = index; then worker sleeps
Publish ==
    /\ wpc = "scan"
    /\ wpat = Len(conf.paths)
    /\ wk = Len(VirtualUris)
    /\ index' = building
    /\ published' = TRUE
    /\ wpc' = "sleep"
    /\ building' = << >>
    /\ latest' = building
    /\ igen' = IF igen < gencap THEN igen + 1 ELSE igen
    /\ UNCHANGED << conf, files, wpat, wk, werr, qvars, fpc, lvars, gencap, seen >>

\* a faulty update_index that starts with self.index = [], the initial list
WakeClearsIndex ==
    /\ wpc = "sleep"
    /\ wpc' = "scan"
    /\ wpat' = 0
    /\ wk' = 0
    /\ building' = << >>
    /\ index' = << >>
    /\ igen' = 0
    /\ UNCHANGED << conf, files, published, werr, qvars, fpc, lvars,
                    latest, gencap, seen >>

\* worker: time.sleep returns and the loop calls update_index again
Wake ==
    /\ wpc = "sleep"
    /\ wpc' = "scan"
    /\ wpat' = 0
    /\ wk' = 0
    /\ building' = << >>
    /\ UNCHANGED << conf, files, index, published, werr, qvars, fpc, lvars, hvars >>

(***************************************************************************)
(* The query engine: handle_query, find_results, find_results_dir.         *)
(***************************************************************************)
\* a faulty gate that measures the query as typed
RawLengthGate(q, m) == ~(Len(q) < m)

\* handle_query's length gate, on the stripped and lower-cased query
PassesGate(q, m) == ~(Len(Lower(Strip(q))) < m)

\* a faulty test that also sends a query that is a directory to path mode
WholeOrHeadIsDir(q) == IsDir(Split(q)[1]) \/ IsDir(q)

\* find_results: the query is handed to find_results_dir
IsPathQuery(q) == IsDir(Split(q)[1])

\* find_results_dir: the directory listed and the text its names are matched to
DirHead(q) == IF IsDir(q) THEN q ELSE Split(q)[1]
DirTail(q) == IF IsDir(q) THEN << >> ELSE Split(q)[2]

\* the text searched for, q, in either mode
Needle(q, mode) ==
    IF mode = "path" THEN Lower(Strip(DirTail(q))) ELSE Lower(Strip(q))

\* a faulty match that does not lower-case the title or name
CaseSensitivePos(text, needle) == Find(text, needle)

\* pos: where the needle first occurs in the lower-cased title or name
MatchPos(text, needle) == Find(Lower(text), needle)

\* a faulty loop that never looks at query.isValid
NeverBreaks(valid) == FALSE

\* the loop's "if not query.isValid: break"
MustBreak(valid) == ~valid

\* IndexItem.to_albert_item: the fields the result is compared by
ToAlbertItem(item) == [id |-> item.uri, text |-> item.title]

\* a faulty sort key: pos alone
PosOnlyLess(x, y) == x.pos < y.pos

\* results.sort(key=lambda x: (x[0], x[1])): tuple order of (pos, title)
KeyLess(x, y) ==
    \/ x.pos < y.pos
    \/ x.pos = y.pos /\ StrLess(x.title, y.title)

\* list.sort is stable: x goes behind every element that is not greater
RECURSIVE InsertSorted(_, _)
InsertSorted(s, x) ==
    IF s = << >> THEN << x >>
    ELSE IF KeyLess(x, Head(s)) THEN << x >> \o s
    ELSE << Head(s) >> \o InsertSorted(Tail(s), x)

RECURSIVE SortInto(_, _)
SortInto(acc, rest) ==
    IF rest = << >> THEN acc
    ELSE SortInto(InsertSorted(acc, Head(rest)), Tail(rest))

SortResults(triples) == SortInto(<< >>, triples)

\* return [x[2] for x in results]
Returned(triples) ==
    LET sorted == SortResults(triples)
    IN  [i \in 1..Len(sorted) |-> sorted[i].result]

\* handle_query up to the first candidate: the length gate, the mode, and the
\* one read of shared state: self.index (name mode), the directory (path mode).
\* The host sends queries between initialize() and finalize().
HandleQueryStart ==
    /\ qpc = "idle"
    /\ wpc # "unstarted"
    /\ fpc = "none"
    /\ \E q \in Queries :
          /\ qstr' = q
          /\ qvalid' = TRUE
          /\ qcancelAt' = -1
          /\ qi' = 0
          /\ found' = << >>
          /\ results' = << >>
          /\ IF ~PassesGate(q, conf.min_length)
             THEN /\ qpc' = "done"
                  /\ qmode' = "none"
                  /\ cands' = << >>
                  /\ qfiles' = {}
                  /\ qread' = << >>
                  /\ qgen' = -1
             ELSE IF IsPathQuery(q)
             THEN /\ qmode' = "path"
                  /\ qfiles' = files
                  /\ qread' = << >>
                  /\ qgen' = -1
                  /\ \E ok \in BOOLEAN :
                        IF ok
                        THEN /\ qpc' = "iter"
                             /\ cands' = ScanDir(DirHead(q), files)
                        ELSE /\ qpc' = "raised"
                             /\ cands' = << >>
             ELSE /\ qpc' = "iter"
                  /\ qmode' = "name"
                  /\ cands' = index
                  /\ qfiles' = {}
                  /\ qread' = index
                  /\ qgen' = igen
    /\ UNCHANGED << conf, files, index, published, wvars, fpc, lvars, hvars >>

\* the host invalidates the running query
QueryCancel ==
    /\ qpc = "iter"
    /\ qvalid
    /\ qvalid' = FALSE
    /\ qcancelAt' = qi
    /\ UNCHANGED << conf, files, index, published, wvars, fpc, lvars, hvars,
                    qpc, qstr, qmode, cands, qi, found, results, qfiles,
                    qread, qgen >>

\* the list s in the order of its titles
SortedByTitle(s) ==
    LET keyed == SortResults([i \in 1..Len(s) |->
                    [pos |-> 0, title |-> s[i].title, result |-> s[i]]])
    IN  [i \in 1..Len(keyed) |-> keyed[i].result]

\* a faulty handle_query that sorts the list self.index names
\* (self.index.sort(...)) before it returns
QueryReturnSortsIndex ==
    /\ qpc = "iter"
    /\ qi >= Len(cands) \/ MustBreak(qvalid)
    /\ qpc' = "done"
    /\ results' = Returned(found)
    /\ index' = SortedByTitle(index)
    /\ UNCHANGED << conf, files, published, wvars, fpc, lvars, hvars,
                    qstr, qmode, qvalid, cands, qi, found, qcancelAt, qfiles,
                    qread, qgen >>

\* the loop ends (exhausted or break): list() returns, sort, return
QueryReturn ==
    /\ qpc = "iter"
    /\ qi >= Len(cands) \/ MustBreak(qvalid)
    /\ qpc' = "done"
    /\ results' = Returned(found)
    /\ UNCHANGED << conf, files, index, published, wvars, fpc, lvars, hvars,
                    qstr, qmode, qvalid, cands, qi, found, qcancelAt, qfiles,
                    qread, qgen >>

\* find_results: one pass of "for item in self.index"
NameStep ==
    /\ qpc = "iter"
    /\ qmode = "name"
    /\ qi < Len(cands)
    /\ ~MustBreak(qvalid)
    /\ LET item == cands[qi + 1]
           pos == MatchPos(item.title, Needle(qstr, qmode))
       IN  IF pos < 0
           THEN /\ qi' = qi + 1
                /\ UNCHANGED << qpc, found >>
           ELSE \E ok \in BOOLEAN :
                   \* the icon of trash:/// is queried anew and may raise
                   IF ok \/ ~StartsWith(item.uri, SubSeq(TrashUri, 1, 8))
                   THEN /\ qi' = qi + 1
                        /\ found' = Append(found,
                              [pos |-> pos, title |-> item.title,
                               result |-> ToAlbertItem(item)])
                        /\ UNCHANGED qpc
                   ELSE /\ qpc' = "raised"
                        /\ UNCHANGED << qi, found >>
    /\ UNCHANGED << conf, files, index, published, wvars, fpc, lvars, hvars,
                    qstr, qmode, qvalid, cands, results, qcancelAt, qfiles,
                    qread, qgen >>

\* find_results_dir: one pass of "for entry in os.scandir(head)"
DirStep ==
    /\ qpc = "iter"
    /\ qmode = "path"
    /\ qi < Len(cands)
    /\ ~MustBreak(qvalid)
    /\ LET entry == cands[qi + 1]
           pos == MatchPos(entry.name, Needle(qstr, qmode))
       IN  IF pos < 0
           THEN /\ qi' = qi + 1
                /\ UNCHANGED << qpc, found >>
           ELSE \E ok \in BOOLEAN :
                   IF ok /\ Exists(entry.path, files)
                   THEN LET item == IndexItem(entry.path, files)
                        IN  /\ qi' = qi + 1
                            /\ found' = Append(found,
                                  [pos |-> pos, title |-> item.title,
                                   result |-> ToAlbertItem(item)])
                            /\ UNCHANGED qpc
                   ELSE /\ qpc' = "raised"
                        /\ UNCHANGED << qi, found >>
    /\ UNCHANGED << conf, files, index, published, wvars, fpc, lvars, hvars,
                    qstr, qmode, qvalid, cands, results, qcancelAt, qfiles,
                    qread, qgen >>

\* the host has taken what handleQuery returned or raised; the query is over
QueryConsumed ==
    /\ qpc \in {"done", "raised"}
    /\ qpc' = "idle"
    /\ qstr' = << >>
    /\ qmode' = "none"
    /\ qvalid' = TRUE
    /\ cands' = << >>
    /\ qi' = 0
    /\ found' = << >>
    /\ results' = << >>
    /\ qcancelAt' = -1
    /\ qfiles' = {}
    /\ qread' = << >>
    /\ qgen' = -1
    /\ seen' = IF qgen > seen THEN qgen ELSE seen
    /\ UNCHANGED << conf, files, index, published, wvars, fpc, lvars, latest, gencap, igen >>

(***************************************************************************)
(* finalize(): thread.join(timeout=0.1)                                    *)
(***************************************************************************)
\* a faulty join without a timeout: it returns when the thread has ended
JoinWaitsForThread(w) == w = "dead"

\* join with a timeout returns when the thread has ended or the time is up
JoinReturns(w) == TRUE

\* the host unloads the extension, when no query is in its hands
FinalizeJoin ==
    /\ fpc = "none"
    /\ wpc # "unstarted"
    /\ qpc = "idle"
    /\ fpc' = "joining"
    /\ UNCHANGED << conf, files, index, published, wvars, qvars, lvars, hvars >>

FinalizeReturn ==
    /\ fpc = "joining"
    /\ JoinReturns(wpc)
    /\ fpc' = "returned"
    /\ UNCHANGED << conf, files, index, published, wvars, qvars, lvars, hvars >>

Next ==
    \/ FsChange
    \/ Initialize
    \/ ScanPattern
    \/ AppendVirtual
    \/ Publish
    \/ Wake
    \/ HandleQueryStart
    \/ QueryCancel
    \/ QueryReturn
    \/ NameStep
    \/ DirStep
    \/ QueryConsumed
    \/ FinalizeJoin
    \/ FinalizeReturn

Spec == Init /\ [][Next]_vars

(***************************************************************************)
(* Loading the configuration: Extension() at every start of the host.      *)
(***************************************************************************)
\* read_conf: read_json, the setdefault calls, and write_json if they added
\* a key.  json.load and open(fname, "w") raise to the caller.
ReadConf ==
    /\ lpc \in {"start", "loaded"}
    /\ loads < MaxLoads
    /\ LET read == ReadJsonOrEmpty(cfile)
           merged == SetDefaults(read)
       IN  \E ok \in BOOLEAN :
              IF cfile.kind = "bad" \/ (NeedsWrite(merged, read) /\ ~ok)
              THEN /\ lpc' = "failed"
                   /\ UNCHANGED << conf, cfile, loads, orig, wrote, edited, reloaded >>
              ELSE /\ lpc' = "loaded"
                   /\ conf' = merged
                   /\ orig' = read
                   /\ loads' = loads + 1
                   /\ edited' = FALSE
                   /\ reloaded' = (loads >= 1 /\ ~edited)
                   /\ wrote' = NeedsWrite(merged, read)
                   /\ cfile' = IF NeedsWrite(merged, read)
                               THEN [kind |-> "object", members |-> Dumps(merged)]
                               ELSE cfile
    /\ UNCHANGED << files, index, published, wvars, qvars, fpc, hvars >>

\* the user or another program rewrites or removes filex.json
ConfEdit ==
    /\ lpc = "loaded"
    /\ \E f \in ConfFiles :
          /\ f # cfile
          /\ cfile' = f
    /\ edited' = TRUE
    /\ UNCHANGED << conf, files, index, published, wvars, qvars, fpc, hvars,
                    lpc, loads, orig, wrote, reloaded >>

\* nothing has run: the index is the empty list of __init__, the thread is
\* not started, no query and no finalize are under way
Quiescent ==
    /\ index = << >>
    /\ published = FALSE
    /\ wpc = "unstarted"
    /\ wpat = 0
    /\ wk = 0
    /\ building = << >>
    /\ werr = "none"
    /\ qpc = "idle"
    /\ qstr = << >>
    /\ qmode = "none"
    /\ qvalid = TRUE
    /\ cands = << >>
    /\ qi = 0
    /\ found = << >>
    /\ results = << >>
    /\ qcancelAt = -1
    /\ qfiles = {}
    /\ qread = << >>
    /\ qgen = -1
    /\ fpc = "none"
    /\ latest = << >>
    /\ igen = 0
    /\ seen = 0

\* the host has not imported the module yet; filex.json is anything
LoadInit ==
    /\ cfile \in ConfFiles
    /\ lpc = "start"
    /\ loads = 0
    /\ conf = EmptyDict
    /\ orig = EmptyDict
    /\ wrote = FALSE
    /\ edited = FALSE
    /\ reloaded = FALSE
    /\ files = FixedFiles
    /\ gencap = 0
    /\ Quiescent

LoadNext ==
    \/ ReadConf
    \/ ConfEdit

LoadSpec == LoadInit /\ [][LoadNext]_vars

(***************************************************************************)
(* The extension with the configuration read_conf makes when there is no   *)
(* filex.json, and the assignments of Extension.index counted.             *)
(***************************************************************************)
OrderInit ==
    /\ conf = SetDefaults(EmptyDict)
    /\ cfile = [kind |-> "object", members |-> Dumps(conf)]
    /\ lpc = "loaded"
    /\ loads = 1
    /\ orig = EmptyDict
    /\ wrote = TRUE
    /\ edited = FALSE
    /\ reloaded = FALSE
    /\ files \in { FixedFiles \cup o : o \in SUBSET OptionalFiles }
    /\ gencap = MaxGen
    /\ Quiescent

OrderSpec == OrderInit /\ [][Next]_vars

(***************************************************************************)
(* Properties.                                                             *)
(***************************************************************************)
Last(s, k) == SubSeq(s, Len(s) - k + 1, Len(s))
Uris(s) == [i \in 1..Len(s) |-> s[i].uri]

\* a whole snapshot: the empty initial list, or a list closed by the three
\* virtual locations
WholeSnapshot(s) ==
    \/ s = << >>
    \/ Len(s) >= 3 /\ Uris(Last(s, 3)) = << ComputerUri, RecentUri, TrashUri >>

QueryStarted == qpc \in {"iter", "done", "raised"}

\* C1: whatever the worker is doing, Extension.index is a whole snapshot and
\* the list a name-mode query reads from it is a whole snapshot; the list
\* update_index is still building is never what the index or the query holds.
C1_SnapshotAtomicity ==
    /\ WholeSnapshot(index)
    /\ QueryStarted /\ qmode = "name" => WholeSnapshot(cands)
    /\ wpc = "scan" /\ ~WholeSnapshot(building) =>
          /\ index # building
          /\ QueryStarted /\ qmode = "name" => cands # building

\* a query holds the snapshot that was replaced while it ran, and the next
\* scan is under way with a partly built list
C1_Witness ==
    /\ qpc = "iter" /\ qmode = "name"
    /\ cands # << >> /\ cands # index
    /\ wpc = "scan" /\ building # << >> /\ ~WholeSnapshot(building)

\* C2 (as claimed): a failure to resolve a matched path never ends the worker
C2_ScanFailureAbsorbed == ~(wpc = "dead" /\ werr = "scan")

\* C3 (as claimed): handle_query never raises to the caller
C3_QueryNeverRaises == qpc # "raised"

\* C4: a query whose stripped length is below conf["min_length"] returns the
\* empty list at the gate: no mode is chosen, nothing is read or iterated.
C4_ShortQueryEmpty ==
    QueryStarted /\ Len(Strip(qstr)) < conf.min_length =>
        /\ qpc = "done"
        /\ results = << >>
        /\ qmode = "none"
        /\ cands = << >> /\ qi = 0 /\ found = << >> /\ qfiles = {}

\* a path-like query stopped at the gate while the index holds entries
C4_Witness ==
    /\ qpc = "done" /\ qmode = "none"
    /\ IsDir(qstr)
    /\ Len(Strip(qstr)) < conf.min_length
    /\ index # << >>

\* C5 (as claimed): path mode exactly when head or the whole query is an
\* existing directory
C5_ModeByHeadOrWhole ==
    QueryStarted /\ qmode # "none" =>
        (qmode = "path" <=> (IsDir(Split(qstr)[1]) \/ IsDir(qstr)))

\* C5 (amended): a query that passes the length gate is handled in path mode
\* exactly when head, the part before its last separator, is an existing
\* directory, and in name mode otherwise, also when the whole query names an
\* existing directory.
C5_ModeByHead ==
    QueryStarted /\ qmode # "none" =>
        /\ qmode \in {"path", "name"}
        /\ qmode = "path" <=> IsDir(Split(qstr)[1])

\* a relative directory name, whose head is empty, searched by name
C5_Witness ==
    /\ qpc = "done" /\ qmode = "name"
    /\ IsDir(qstr) /\ ~IsDir(Split(qstr)[1])
    /\ results # << >>

\* the names of the children of the directory a path string names
ChildNames(dirpath, fs) ==
    { n[Len(n)] : n \in { m \in Dirs \cup fs : m # Root /\ Parent(m) = Resolve(dirpath) } }

Texts(rs) == { rs[i].text : i \in 1..Len(rs) }

PathQueryReturned == qpc = "done" /\ qmode = "path" /\ qvalid

\* C6 (as claimed): the results of a path-mode query are the children of head
\* whose lower-cased name contains the lower-cased tail
C6_ChildrenOfHeadByTail ==
    PathQueryReturned =>
        Texts(results) =
            { n \in ChildNames(Split(qstr)[1], qfiles) :
                Find(Lower(n), Lower(Split(qstr)[2])) >= 0 }

\* C6 (amended): a path-mode query (it passed the length gate and its head is
\* an existing directory) that returns without being cancelled lists
\* the query itself when it is an existing directory, all its children, and
\* otherwise head, the children whose lower-cased name contains the stripped,
\* lower-cased tail; one result per child, whatever the index holds.
C6_PathListing ==
    PathQueryReturned =>
        LET whole == IsDir(qstr)
            dir == IF whole THEN qstr ELSE Split(qstr)[1]
            want == IF whole THEN ChildNames(dir, qfiles)
                    ELSE { n \in ChildNames(dir, qfiles) :
                             Find(Lower(n), Lower(Strip(Split(qstr)[2]))) >= 0 }
        IN  /\ Texts(results) = want
            /\ Len(results) = Cardinality(want)

\* head is listed and the tail leaves some children out, while the index
\* holds none of the children listed
C6_Witness ==
    /\ PathQueryReturned
    /\ ~IsDir(qstr)
    /\ results # << >>
    /\ Texts(results) # ChildNames(Split(qstr)[1], qfiles)
    /\ index = << >>

\* what a candidate is matched by: the title of an index entry, the name of
\* a directory entry
CandText(c) == IF qmode = "name" THEN c.title ELSE c.name

\* the text looked for, as the claims state it
Sought ==
    IF qmode = "name" THEN Lower(Strip(qstr))
    ELSE IF IsDir(qstr) THEN << >>
    ELSE Lower(Strip(Split(qstr)[2]))

\* the candidates among the first n that contain the text looked for
Hits(n) == { i \in 1..n : Find(Lower(CandText(cands[i])), Sought) >= 0 }

\* rs ascends by (pos, title), titles compared as Python compares strings
Ranked(rs) ==
    \A j \in 1..(Len(rs) - 1) :
        LET p1 == Find(Lower(rs[j].text), Sought)
            p2 == Find(Lower(rs[j + 1].text), Sought)
        IN  \/ p1 < p2
            \/ p1 = p2 /\ ~StrLess(rs[j + 1].text, rs[j].text)

\* C7: a name-mode query that is not cancelled returns the entries of its
\* snapshot whose lower-cased title contains the stripped, lower-cased query,
\* each as often as the snapshot holds it, in ascending order of (pos, title).
C7_NameRanking ==
    qpc = "done" /\ qmode = "name" /\ qvalid =>
        LET hits == Hits(Len(cands))
        IN  /\ Len(results) = Cardinality(hits)
            /\ \A i \in hits :
                  Cardinality({ j \in 1..Len(results) :
                      results[j] = [id |-> cands[i].uri, text |-> cands[i].title] })
                  = Cardinality({ k \in hits : cands[k] = cands[i] })
            /\ Ranked(results)

\* the result order differs from the snapshot order: "Ab" and "a" tie on
\* pos, and "Ab", found later, is returned first
C7_Witness ==
    /\ qpc = "done" /\ qmode = "name" /\ qvalid
    /\ Len(results) >= 4
    /\ results[1].text = NameAb /\ results[2].text = NameA
    /\ \E i, j \in 1..Len(cands) :
          i < j /\ cands[i].title = NameA /\ cands[j].title = NameAb

\* C8: once isValid is false with N candidates processed, no further
\* candidate is processed, the query does not raise, and what it returns is
\* the ranked matches among the first N candidates.
C8_CancelledAfterN ==
    qcancelAt >= 0 =>
        /\ qpc \in {"iter", "done"}
        /\ qi = qcancelAt
        /\ qpc = "done" =>
              /\ Len(results) = Cardinality(Hits(qcancelAt))
              /\ Texts(results) = { CandText(cands[i]) : i \in Hits(qcancelAt) }
              /\ Ranked(results)

\* a cancelled query returned some results and left a matching candidate out
C8_Witness ==
    /\ qpc = "done" /\ qcancelAt >= 1 /\ qcancelAt < Len(cands)
    /\ results # << >>
    /\ Hits(Len(cands)) # Hits(qcancelAt)

\* C9: once update_index has published, the last three entries of the index
\* are computer:///, recent:/// and trash:///, in that order.
C9_VirtualEntriesLast ==
    published =>
        /\ Len(index) >= 3
        /\ index[Len(index) - 2].uri = ComputerUri
        /\ index[Len(index) - 1].uri = RecentUri
        /\ index[Len(index)].uri = TrashUri

\* a published index with scanned entries before the virtual ones
C9_Witness ==
    /\ published
    /\ Len(index) > 3
    /\ index[1].uri \notin { ComputerUri, RecentUri, TrashUri }

\* C10: while finalize waits in join, its return is enabled whatever the
\* worker is doing: the wait ends with the timeout, not with the scan or
\* the sleep.
C10_FinalizeNeverBlocked == fpc = "joining" => ENABLED FinalizeReturn

\* finalize has returned and the worker is in the middle of a scan
C10_Witness ==
    /\ fpc = "returned"
    /\ wpc = "scan" /\ building # << >> /\ ~WholeSnapshot(building)

\* C11: loading the configuration is idempotent: a call of read_conf that
\* follows another with no change of filex.json from outside in between
\* returns the same configuration as that one and does not write the file.
C11_LoadIdempotent ==
    [][(loads >= 1 /\ ~edited /\ loads' = loads + 1)
          => (conf' = conf /\ ~wrote' /\ cfile' = cfile)]_vars

\* a second call has returned, the file untouched since the first; paths has
\* its default
C11_Witness ==
    /\ lpc = "loaded"
    /\ loads = 2
    /\ reloaded
    /\ conf.paths = DefaultValue("paths")

\* the value filex.json gives key k, as a set: empty if the object lacks k
Persisted(k) ==
    { cfile.members[i][2] : i \in { j \in DOMAIN cfile.members : cfile.members[j][1] = k } }

\* C12: after every call of read_conf that returned, filex.json holds an
\* object with the three keys min_length, paths and scan_interval; a key the
\* file lacked has its default (1, the expansion of "~/*", 900) and the file
\* was written; a key the file had has the value it had.
C12_DefaultsPersisted ==
    (lpc = "loaded" /\ ~edited) =>
        /\ cfile.kind = "object"
        /\ Len(cfile.members) = 3
        /\ \A k \in {"min_length", "paths", "scan_interval"} :
              IF k \in DOMAIN orig
              THEN Persisted(k) = { orig[k] }
              ELSE /\ wrote
                   /\ Persisted(k) =
                         CASE k = "min_length" -> { 1 }
                           [] k = "paths" -> { << Home \o << "/", "*" >> >> }
                           [] k = "scan_interval" -> { 900 }

\* the file had min_length 2 and no paths; the call has added the default
C12_Witness ==
    /\ lpc = "loaded"
    /\ ~edited
    /\ wrote
    /\ DOMAIN orig = {"min_length"}
    /\ orig["min_length"] = 2
    /\ Persisted("min_length") = { 2 }
    /\ Persisted("paths") = { << PatSub >> }

\* where the directory listing of a path-mode query produced the entry named n
ListingPlace(n) == CHOOSE k \in 1..Len(cands) : cands[k].name = n

HitsOf(s) == { i \in 1..Len(s) : Find(Lower(s[i].title), Lower(Strip(qstr))) >= 0 }

\* C14: a name-mode query works on one list from its first candidate to its
\* return: the candidates it visits are those of the list self.index named
\* when the query read it, also after update_index has assigned a new list,
\* and what it returns, not cancelled, is the ranked matches of that list.
C14_OneSnapshotPerQuery ==
    (qmode = "name" /\ qpc \in {"iter", "done", "raised"}) =>
        /\ cands = qread
        /\ (qpc = "done" /\ qvalid) =>
              /\ Len(results) = Cardinality(HitsOf(qread))
              /\ \A i \in HitsOf(qread) :
                    Cardinality({ j \in 1..Len(results) :
                        results[j] = [id |-> qread[i].uri, text |-> qread[i].title] })
                    = Cardinality({ k \in HitsOf(qread) : qread[k] = qread[i] })
              /\ Ranked(results)

\* the query has returned matches of the list it read, and update_index has
\* assigned a list with other entries since
C14_Witness ==
    /\ qpc = "done" /\ qmode = "name" /\ qvalid
    /\ results # << >>
    /\ qread # << >>
    /\ index # qread
    /\ Len(results) # Cardinality(HitsOf(index))

\* C15: once started, the worker repeats scan, publish, sleep for ever: a scan
\* in progress goes on or ends in the one assignment of self.index, made when
\* every pattern is expanded and the three virtual entries are appended,
\* after which the worker sleeps; the sleep ends in the next scan; the loop is
\* never left, so that every publish is followed by another scan and publish.
C15_RefresherCycle ==
    [][/\ (wpc = "scan") => (wpc' \in {"scan", "sleep"})
       /\ (wpc = "sleep") => (wpc' \in {"sleep", "scan"})
       /\ (wpc = "scan" /\ wpc' = "sleep") =>
             /\ wpat = Len(conf.paths)
             /\ wk = 3
             /\ index' = building
       /\ (index' # index) => (wpc = "scan" /\ wpc' = "sleep")]_vars

\* the sets of files there can be
FileSets == { FixedFiles \cup o : o \in SUBSET OptionalFiles }

\* what each pattern tried matches for each set of files
MatchesOf ==
    [p \in UNION { { l[i] : i \in 1..Len(l) } : l \in PathLists }, fs \in FileSets |->
        Glob(ExpandUser(p), fs)]

\* the matches of the first n patterns of conf["paths"], pattern i expanded
\* when the files were at[i], one after the other
RECURSIVE MatchesUpTo(_, _)
MatchesUpTo(n, at) ==
    IF n = 0 THEN << >>
    ELSE MatchesUpTo(n - 1, at) \o MatchesOf[conf.paths[n], at[n]]

\* C16: a published index is, in the order of conf["paths"], the matches of
\* each pattern in the order glob produced them, each as file:// and its path,
\* followed by computer:///, recent:/// and trash:///; a path that several
\* patterns match is there once for each, so that the length is the number of
\* matches plus three.
C16_ConcatenationOfMatches ==
    published =>
        \E at \in [1..Len(conf.paths) -> FileSets] :
            LET matches == MatchesUpTo(Len(conf.paths), at)
            IN  /\ Len(index) = Len(matches) + 3
                /\ \A i \in 1..Len(matches) : index[i].uri = FileScheme \o matches[i]
                /\ index[Len(matches) + 1].uri = ComputerUri
                /\ index[Len(matches) + 2].uri = RecentUri
                /\ index[Len(matches) + 3].uri = TrashUri

\* both patterns are /a/*: the index holds /a/Ab twice
C16_Witness ==
    /\ published
    /\ conf.paths = << PatSub, PatSub >>
    /\ Len(index) = 5
    /\ index[1] = index[2]
    /\ index[1].uri = FileScheme \o << "/", "a", "/", "A", "b" >>

\* C17: until update_index assigns it for the first time the index is the
\* empty list of Extension.__init__; a name-mode query that read the index
\* before then, the first scan in progress or not, visits nothing and returns
\* the empty list; once assigned, the index is never the empty list again.
C17_EmptyUntilFirstPublish ==
    /\ ~published => index = << >>
    /\ (~published /\ qmode = "name") => qread = << >>
    /\ (qmode = "name" /\ qread = << >>) =>
          (cands = << >> /\ found = << >> /\ results = << >> /\ qpc # "raised")
    /\ published => index # << >>

\* the first scan has collected entries but not published; a name-mode query
\* issued meanwhile has returned, with nothing
C17_Witness ==
    /\ ~published
    /\ wpc = "scan"
    /\ building # << >>
    /\ qpc = "done" /\ qmode = "name" /\ qvalid
    /\ Len(qstr) > 0
    /\ results = << >>

\* C18: when update_index has raised, in scan or at a virtual entry, the
\* index is left as it was: it is the whole list of the last assignment (the
\* empty list if there was none), and a name-mode query that starts from
\* then on reads that list.
C18_FailedScanKeepsIndex ==
    [][(wpc' = "dead") =>
          /\ index' = index
          /\ index' = latest'
          /\ WholeSnapshot(index')
          /\ (qpc = "idle" /\ qmode' = "name") => (qread' = latest /\ cands' = latest)]_vars

\* the second scan failed at a virtual entry, after entries had been
\* collected; a name-mode query has returned matches of the index before it
C18_Witness ==
    /\ wpc = "dead"
    /\ werr = "virtual"
    /\ published
    /\ qpc = "done" /\ qmode = "name"
    /\ qread = index
    /\ results # << >>

\* C19: queries only read, and a list once assigned to self.index is never
\* changed: a step of handle_query, in either mode, cancelled or not, leaves
\* the index and the configuration as they are; the index changes only by
\* becoming the list update_index has built; and the list a running query
\* holds keeps its entries and its length until the query is over.
C19_QueriesReadOnly ==
    [][/\ (qvars' # qvars) =>
             (index' = index /\ conf' = conf /\ cfile' = cfile /\ latest' = latest)
       /\ (index' # index) => (index' = building /\ wpc = "scan")
       /\ (qpc \in {"iter", "done", "raised"} /\ qpc' # "idle") =>
             (cands' = cands /\ Len(cands') = Len(cands) /\ qread' = qread)]_vars

\* a cancelled name-mode query has returned; it held, to the end, a list that
\* update_index had replaced by one with other entries
C19_Witness ==
    /\ qpc = "done" /\ qmode = "name"
    /\ qcancelAt >= 1
    /\ cands = qread
    /\ Len(cands) > 3
    /\ index # cands
    /\ index = latest

\* C20: the lists assigned to self.index are read in the order of their
\* assignment: the list a name-mode query reads is the one an earlier
\* name-mode query read or one assigned later, never one assigned before
\* it; and a query that read the list of the last assignment holds the
\* list the index names now.
C20_ReadsInPublishOrder ==
    (qmode = "name" /\ qgen >= 0) =>
        /\ qgen >= seen
        /\ (qgen = igen /\ igen < gencap) => qread = index

\* an earlier query read the list of the first assignment; the query now
\* running reads the list of the second
C20_Witness ==
    /\ qpc = "iter" /\ qmode = "name"
    /\ seen = 1
    /\ qgen = 2
    /\ qread = cands
    /\ Len(qread) > 3

====
